---- MODULE Spec2Model ----
(***************************************************************************)
(* Model of docs/blueprints/msgspec.py: the MsgspecExtension adapter that  *)
(* lets drf-spectacular document msgspec.Struct types and list[Struct].    *)
(*                                                                         *)
(* Python objects are records; names are sequences of characters so that   *)
(* str.lower() and the "ArrayOf" prefix are computed and not assumed.      *)
(***************************************************************************)
EXTENDS Integers, Sequences, FiniteSets, TLC

VARIABLES target_class, registry, ncalls, call, prev, pc, work, seen, lost

vars == <<target_class, registry, ncalls, call, prev, pc, work, seen, lost>>

(***************************************************************************)
(* Bounds of the model.                                                    *)
(***************************************************************************)
\* number of map_serializer calls explored (each creates fresh components)
MaxCalls == 2

(***************************************************************************)
(* Strings.                                                                *)
(***************************************************************************)
UpperChars == <<"A","B","C","D","E","F","G","H","I","J","K","L","M",
                "N","O","P","Q","R","S","T","U","V","W","X","Y","Z">>

LowerChars == <<"a","b","c","d","e","f","g","h","i","j","k","l","m",
                "n","o","p","q","r","s","t","u","v","w","x","y","z">>

LowerChar(c) ==
    IF \E i \in DOMAIN UpperChars : UpperChars[i] = c
    THEN LowerChars[CHOOSE i \in DOMAIN UpperChars : UpperChars[i] = c]
    ELSE c

\* str.lower()
lower(s) == [i \in DOMAIN s |-> LowerChar(s[i])]

s_list == <<"l","i","s","t">>

s_none == <<"n","o","n","e">>

s_ArrayOf == <<"A","r","r","a","y","O","f">>

ref_template == <<"#/components/schemas/">>

(***************************************************************************)
(* The classes of the universe: the marker msgspec.Struct, three structs   *)
(* (Line has two Point fields, Pixel derives from Point), a struct whose   *)
(* declared name starts with "ArrayOf", and classes unrelated to Struct.   *)
(***************************************************************************)
Classes == {"cStruct", "cPoint", "cPixel", "cLine", "cArrayOfPoint",
            "cUnrelated", "cInt", "cFunction", "cGenericAlias"}

\* cls.__name__
DeclaredName(c) ==
    CASE c = "cStruct"       -> <<"S","t","r","u","c","t">>
      [] c = "cPoint"        -> <<"P","o","i","n","t">>
      [] c = "cPixel"        -> <<"P","i","x","e","l">>
      [] c = "cLine"         -> <<"L","i","n","e">>
      [] c = "cArrayOfPoint" -> s_ArrayOf \o <<"P","o","i","n","t">>
      [] c = "cUnrelated"    -> <<"U","n","r","e","l","a","t","e","d">>
      [] c = "cInt"          -> <<"i","n","t">>
      [] c = "cFunction"     -> <<"f","u","n","c","t","i","o","n">>
      [] c = "cGenericAlias" -> <<"G","e","n","e","r","i","c","A","l","i","a","s">>

\* the direct base class ("object" ends the chain)
Base(c) ==
    CASE c \in {"cPoint", "cLine", "cArrayOfPoint"} -> "cStruct"
      [] c = "cPixel" -> "cPoint"
      [] OTHER -> "object"

RECURSIVE Mro(_)
Mro(c) == IF c = "object" THEN {} ELSE {c} \cup Mro(Base(c))

\* the declared fields of a struct: <<field name, field type>>
Fields(c) ==
    CASE c = "cPoint"        -> << <<"x", "int">>, <<"y", "int">> >>
      [] c = "cPixel"        -> << <<"x", "int">>, <<"y", "int">>, <<"rgb", "int">> >>
      [] c = "cLine"         -> << <<"start", "cPoint">>, <<"end", "cPoint">> >>
      [] c = "cArrayOfPoint" -> << <<"n", "int">> >>
      [] OTHER               -> << >>

\* struct types referenced by the fields of a struct
FieldTypes(c) == {Fields(c)[i][2] : i \in DOMAIN Fields(c)} \cap Classes

(***************************************************************************)
(* Documentation targets.  kind "class" is what inspect.isclass accepts.   *)
(***************************************************************************)
Cls(c) == [kind |-> "class", cls |-> c, hasName |-> TRUE,
           name |-> DeclaredName(c), hasArgs |-> FALSE, args |-> <<>>]

\* an instance of class c with no __name__ (42, a struct instance)
Obj(c) == [kind |-> "object", cls |-> c, hasName |-> FALSE,
           name |-> <<>>, hasArgs |-> FALSE, args |-> <<>>]

\* a function object: it has a __name__ and no __args__
Func(n) == [kind |-> "object", cls |-> "cFunction", hasName |-> TRUE,
            name |-> n, hasArgs |-> FALSE, args |-> <<>>]

\* a generic alias n[a1, ...]: list[T] is Alias("list", <<T>>)
Alias(n, a) == [kind |-> "object", cls |-> "cGenericAlias", hasName |-> TRUE,
                name |-> n, hasArgs |-> TRUE, args |-> a]

ListOf(c) == Alias(s_list, <<Cls(c)>>)

TypingListOf(c) == Alias(<<"L","i","s","t">>, <<Cls(c)>>)

FortyTwo == Obj("cInt")

StructClasses == {"cStruct", "cPoint", "cPixel", "cLine", "cArrayOfPoint"}

ClassTargets == {Cls(c) : c \in StructClasses \cup {"cUnrelated"}}

ListTargets ==
    {ListOf(c) : c \in {"cPoint", "cLine", "cUnrelated"}}
        \cup {TypingListOf("cPoint")}

MalformedTargets ==
    { Alias(s_list, <<FortyTwo>>),         \* list[42]: element is no class
      Alias(s_list, <<>>),                 \* __args__ == ()
      Func(s_list),                        \* def list(...): no __args__
      Func(<<"L","I","S","T">>),
      Func(<<"f","o","o">>) }

ObjectTargets == {FortyTwo, Obj("cPoint")}

Targets == ClassTargets \cup ListTargets \cup MalformedTargets \cup ObjectTargets

(***************************************************************************)
(* get_iterable_class: the underlying class, and whether it was in a list. *)
(* exc is the exception the call raises ("none" when it returns).          *)
(***************************************************************************)
get_iterable_class(obj) ==
    IF obj.kind = "class"
    THEN [val |-> obj, is_list |-> FALSE, exc |-> "none"]
    ELSE IF lower(IF obj.hasName THEN obj.name ELSE s_none) = s_list
         THEN IF ~obj.hasArgs
              THEN [val |-> obj, is_list |-> FALSE, exc |-> "AttributeError"]
              ELSE IF Len(obj.args) = 0
                   THEN [val |-> obj, is_list |-> FALSE, exc |-> "IndexError"]
                   ELSE [val |-> obj.args[1], is_list |-> TRUE, exc |-> "none"]
         ELSE [val |-> Cls(obj.cls), is_list |-> FALSE, exc |-> "none"]

\* issubclass(v, tc): TypeError unless both arguments are classes
issubclass(v, tc) ==
    IF v.kind # "class" \/ tc \notin Classes
    THEN [ret |-> FALSE, exc |-> "TypeError"]
    ELSE [ret |-> tc \in Mro(v.cls), exc |-> "none"]

\* class attributes of MsgspecExtension
match_subclasses == TRUE

\* target_class before it is resolved: the dotted path "msgspec.Struct"
Unresolved == "msgspec.Struct"

\* OpenApiSerializerExtension._load_class: import the dotted path, None on failure
_load_class(tc, importable) == IF importable THEN "cStruct" ELSE "None"

\* _matches comparing with == as in exact-match mode
matches_exact(tc, target) ==
    LET u == get_iterable_class(target) IN
    IF tc = "None" THEN [ret |-> FALSE, exc |-> "none", unwrapped |-> FALSE]
    ELSE IF u.exc # "none" THEN [ret |-> FALSE, exc |-> u.exc, unwrapped |-> TRUE]
    ELSE [ret |-> (u.val = Cls(tc)), exc |-> "none", unwrapped |-> TRUE]

\* _matches without the "target_class is None" test
matches_unguarded(tc, target) ==
    LET u == get_iterable_class(target)
        r == issubclass(u.val, tc) IN
    IF u.exc # "none" THEN [ret |-> FALSE, exc |-> u.exc, unwrapped |-> TRUE]
    ELSE [ret |-> (r.exc = "none" /\ r.ret), exc |-> "none", unwrapped |-> TRUE]

\* _matches with target_class already loaded; unwrapped records whether
\* get_iterable_class was called
_matches(tc, target) ==
    IF tc = "None"
    THEN [ret |-> FALSE, exc |-> "none", unwrapped |-> FALSE]
    ELSE LET u == get_iterable_class(target) IN
         IF match_subclasses
         THEN IF u.exc = "TypeError"
              THEN [ret |-> FALSE, exc |-> "none", unwrapped |-> TRUE]
              ELSE IF u.exc # "none"
                   THEN [ret |-> FALSE, exc |-> u.exc, unwrapped |-> TRUE]
                   ELSE LET r == issubclass(u.val, tc) IN
                        IF r.exc = "TypeError"
                        THEN [ret |-> FALSE, exc |-> "none", unwrapped |-> TRUE]
                        ELSE [ret |-> r.ret, exc |-> "none", unwrapped |-> TRUE]
         ELSE IF u.exc # "none"
              THEN [ret |-> FALSE, exc |-> u.exc, unwrapped |-> TRUE]
              ELSE [ret |-> (u.val = Cls(tc)), exc |-> "none", unwrapped |-> TRUE]

\* get_name without the ArrayOf prefix
get_name_unprefixed(target) ==
    LET u == get_iterable_class(target) IN
    IF u.exc # "none" THEN [ret |-> <<>>, exc |-> u.exc]
    ELSE IF ~u.val.hasName THEN [ret |-> <<>>, exc |-> "AttributeError"]
    ELSE [ret |-> u.val.name, exc |-> "none"]

\* get_name reading self.target.__name__ instead of the unwrapped class
get_name_of_target(target) ==
    LET u == get_iterable_class(target) IN
    IF u.exc # "none" THEN [ret |-> <<>>, exc |-> u.exc]
    ELSE IF ~target.hasName THEN [ret |-> <<>>, exc |-> "AttributeError"]
    ELSE [ret |-> IF u.is_list THEN s_ArrayOf \o target.name ELSE target.name,
          exc |-> "none"]

\* get_name
get_name(target) ==
    LET u == get_iterable_class(target) IN
    IF u.exc # "none" THEN [ret |-> <<>>, exc |-> u.exc]
    ELSE IF ~u.val.hasName THEN [ret |-> <<>>, exc |-> "AttributeError"]
    ELSE [ret |-> IF u.is_list THEN s_ArrayOf \o u.val.name ELSE u.val.name,
          exc |-> "none"]

(***************************************************************************)
(* msgspec.json.schema_components([target], ref_template): one top-level   *)
(* fragment and the components of every struct reachable from the target.  *)
(***************************************************************************)
Ref(c) == "$ref" :> (ref_template \o DeclaredName(c))

FieldSchema(ty) == IF ty \in Classes THEN Ref(ty) ELSE "type" :> "integer"

Body(c) ==
    ("title" :> DeclaredName(c)) @@ ("type" :> "object")
        @@ ("properties" :>
               [f \in {Fields(c)[i][1] : i \in DOMAIN Fields(c)} |->
                   FieldSchema(Fields(c)[CHOOSE i \in DOMAIN Fields(c) :
                                             Fields(c)[i][1] = f][2])])
        @@ ("required" :> [i \in DOMAIN Fields(c) |-> Fields(c)[i][1]])

RECURSIVE Reach(_, _)
Reach(frontier, done) ==
    IF frontier = {} THEN done
    ELSE LET c == CHOOSE x \in frontier : TRUE IN
         Reach((frontier \cup FieldTypes(c)) \ (done \cup {c}), done \cup {c})

ComponentsOf(c) ==
    [n \in {DeclaredName(d) : d \in Reach({c}, {})} |->
        Body(CHOOSE d \in Reach({c}, {}) : DeclaredName(d) = n)]

IsStructType(t) == t.kind = "class" /\ "cStruct" \in Mro(t.cls)

NoSchema == "x-none" :> "none"

schema_components(target) ==
    IF IsStructType(target)
    THEN [ok |-> TRUE, top |-> Ref(target.cls), components |-> ComponentsOf(target.cls)]
    ELSE IF /\ target.kind = "object" /\ target.cls = "cGenericAlias"
            /\ lower(target.name) = s_list
            /\ Len(target.args) = 1 /\ IsStructType(target.args[1])
         THEN [ok |-> TRUE,
               top |-> ("type" :> "array") @@ ("items" :> Ref(target.args[1].cls)),
               components |-> ComponentsOf(target.args[1].cls)]
         ELSE [ok |-> FALSE, top |-> NoSchema, components |-> <<>>]

(***************************************************************************)
(* ComponentRegistry: components keyed by (name, type).                    *)
(***************************************************************************)
SCHEMA == "schemas"

\* ResolvedComponent(name, type, object, schema); id tells the objects apart
ResolvedComponent(name, type, object, schema, id) ==
    [name |-> name, type |-> type, object |-> object, schema |-> schema, id |-> id]

key(component) == <<component.name, component.type>>

\* ComponentRegistry.register_on_missing
register_on_missing(reg, component) ==
    IF key(component) \in DOMAIN reg
    THEN reg
    ELSE [k \in DOMAIN reg \cup {key(component)} |->
             IF k = key(component) THEN component ELSE reg[k]]

\* ComponentRegistry.register
register(reg, component) ==
    [k \in DOMAIN reg \cup {key(component)} |->
        IF k = key(component) THEN component ELSE reg[k]]

(***************************************************************************)
(* map_serializer                                                          *)
(***************************************************************************)
Without(f, k) == [n \in DOMAIN f \ {k} |-> f[n]]

\* lines 63-72 with the pop left out: the entry stays in components
shape_keep(target) ==
    LET c == schema_components(target) IN
    IF ~c.ok
    THEN [exc |-> "CompilerError", schema |-> NoSchema, components |-> <<>>]
    ELSE IF "type" \in DOMAIN c.top
    THEN [exc |-> "none", schema |-> c.top, components |-> c.components]
    ELSE IF ~target.hasName
    THEN [exc |-> "AttributeError", schema |-> NoSchema, components |-> <<>>]
    ELSE IF target.name \notin DOMAIN c.components
    THEN [exc |-> "KeyError", schema |-> NoSchema, components |-> <<>>]
    ELSE [exc |-> "none", schema |-> c.components[target.name],
          components |-> c.components]

\* lines 63-72: compile the target as given, then pick the result fragment
shape(target) ==
    LET c == schema_components(target) IN
    IF ~c.ok
    THEN [exc |-> "CompilerError", schema |-> NoSchema, components |-> <<>>]
    ELSE IF "type" \in DOMAIN c.top
    THEN [exc |-> "none", schema |-> c.top, components |-> c.components]
    ELSE IF ~target.hasName
    THEN [exc |-> "AttributeError", schema |-> NoSchema, components |-> <<>>]
    ELSE IF target.name \notin DOMAIN c.components
    THEN [exc |-> "KeyError", schema |-> NoSchema, components |-> <<>>]
    ELSE [exc |-> "none", schema |-> c.components[target.name],
          components |-> Without(c.components, target.name)]

\* lines 76-82 with register in place of register_on_missing
register_sub_schema_overwrite(reg, sub_name, sub_schema, id) ==
    register(reg, ResolvedComponent(sub_name, SCHEMA, sub_name, sub_schema, id))

\* lines 76-82: the body of the loop
register_sub_schema(reg, sub_name, sub_schema, id) ==
    register_on_missing(reg, ResolvedComponent(sub_name, SCHEMA, sub_name, sub_schema, id))

\* lines 75-82: the loop over components.items()
RECURSIVE RegisterAll(_, _, _, _)
RegisterAll(reg, components, todo, id) ==
    IF todo = {} THEN reg
    ELSE LET n == CHOOSE x \in todo : TRUE IN
         RegisterAll(register_sub_schema(reg, n, components[n], id),
                     components, todo \ {n}, id)

map_serializer(target, reg, id) ==
    LET s == shape(target) IN
    IF s.exc # "none"
    THEN [exc |-> s.exc, schema |-> s.schema, components |-> s.components,
          registry |-> reg]
    ELSE [exc |-> "none", schema |-> s.schema, components |-> s.components,
          registry |-> RegisterAll(reg, s.components, DOMAIN s.components, id)]

(***************************************************************************)
(* State.  target_class is the class attribute of the extension, registry  *)
(* is auto_schema.registry, ncalls counts the map_serializer calls made.   *)
(* call and prev record the last two calls and what they returned.  pc,    *)
(* work and seen are the position, the local variables and the registry    *)
(* read of each thread of a concurrent build; lost records the overwritten *)
(* registry entries.                                                       *)
(***************************************************************************)
Threads == {1, 2}

NoCall ==
    [op |-> "none", target |-> FortyTwo, ret |-> FALSE, exc |-> "none",
     unwrapped |-> FALSE, name |-> <<>>, schema |-> NoSchema,
     components |-> <<>>, regBefore |-> <<>>]

\* what prev keeps of a get_name / map_serializer call
Summary(c) ==
    IF c.op \in {"name", "schema"}
    THEN [op |-> c.op, target |-> c.target, exc |-> c.exc,
          name |-> c.name, schema |-> c.schema]
    ELSE [op |-> "none", target |-> FortyTwo, exc |-> "none",
          name |-> <<>>, schema |-> NoSchema]

NoWork == [id |-> 0, components |-> <<>>, todo |-> {}, cur |-> <<>>,
           overlapped |-> FALSE]

s_Point == DeclaredName("cPoint")

Sentinel == "x-sentinel" :> "seeded"

\* a component some earlier endpoint registered under Point's name
Seeded ==
    <<s_Point, SCHEMA>> :> ResolvedComponent(s_Point, SCHEMA, s_Point, Sentinel, 0)

Init ==
    /\ target_class = Unresolved
    /\ registry \in {<<>>, Seeded}
    /\ ncalls = 0
    /\ call = NoCall
    /\ prev = Summary(NoCall)
    /\ pc = [th \in Threads |-> "idle"]
    /\ work = [th \in Threads |-> NoWork]
    /\ seen = [th \in Threads |-> <<>>]
    /\ lost = {}

\* the framework hands a target to get_name / map_serializer only after
\* _matches accepted it
Accepted(t) ==
    /\ target_class = "cStruct"
    /\ _matches(target_class, t).exc = "none"
    /\ _matches(target_class, t).ret

\* _matches(target): loads target_class on first use
Matches(t) ==
    \E importable \in BOOLEAN :
        LET tc == IF target_class = Unresolved
                  THEN _load_class(target_class, importable)
                  ELSE target_class
            m == _matches(tc, t) IN
        /\ target_class' = tc
        /\ call' = [NoCall EXCEPT !.op = "matches", !.target = t, !.ret = m.ret,
                                  !.exc = m.exc, !.unwrapped = m.unwrapped,
                                  !.regBefore = registry]
        /\ prev' = Summary(call)
        /\ UNCHANGED <<registry, ncalls, pc, work, seen, lost>>

\* get_name(auto_schema, direction) on an accepted target
NameFor(t) ==
    /\ Accepted(t)
    /\ call' = [NoCall EXCEPT !.op = "name", !.target = t,
                              !.name = get_name(t).ret, !.exc = get_name(t).exc,
                              !.regBefore = registry]
    /\ prev' = Summary(call)
    /\ UNCHANGED <<target_class, registry, ncalls, pc, work, seen, lost>>

\* map_serializer(auto_schema, direction) on an accepted target
SchemaFor(t) ==
    /\ Accepted(t)
    /\ ncalls < MaxCalls
    /\ LET r == map_serializer(t, registry, ncalls + 1) IN
       /\ registry' = r.registry
       /\ call' = [NoCall EXCEPT !.op = "schema", !.target = t, !.exc = r.exc,
                                 !.schema = r.schema, !.components = r.components,
                                 !.regBefore = registry]
    /\ ncalls' = ncalls + 1
    /\ prev' = Summary(call)
    /\ UNCHANGED <<target_class, pc, work, seen, lost>>

Next ==
    \/ \E t \in Targets : Matches(t)
    \/ \E t \in Targets : NameFor(t)
    \/ \E t \in Targets : SchemaFor(t)

Spec == Init /\ [][Next]_vars

(***************************************************************************)
(* A concurrent documentation build: two threads run map_serializer on the *)
(* one shared registry.  register_on_missing reads "key not in components" *)
(* and stores in two steps, with no lock in between.                       *)
(***************************************************************************)
InitConc ==
    /\ target_class = "cStruct"
    /\ registry \in {<<>>, Seeded}
    /\ ncalls = 0
    /\ call = NoCall
    /\ prev = Summary(NoCall)
    /\ pc = [th \in Threads |-> "idle"]
    /\ work = [th \in Threads |-> NoWork]
    /\ seen = [th \in Threads |-> <<>>]
    /\ lost = {}

\* lines 63-72 in thread th: local work only
Begin(th, t) ==
    /\ pc[th] = "idle"
    /\ Accepted(t)
    /\ ncalls < MaxCalls
    /\ ncalls' = ncalls + 1
    /\ LET s == shape(t) IN
       IF s.exc = "none" /\ DOMAIN s.components # {}
       THEN /\ work' = [work EXCEPT ![th] =
                           [NoWork EXCEPT !.id = ncalls + 1,
                                          !.components = s.components,
                                          !.todo = DOMAIN s.components]]
            /\ pc' = [pc EXCEPT ![th] = "check"]
       ELSE UNCHANGED <<work, pc>>
    /\ UNCHANGED <<target_class, registry, call, prev, seen, lost>>

\* line 82, first half: thread th reads the registry for the next sub-schema
Check(th) ==
    /\ pc[th] = "check"
    /\ \E n \in work[th].todo :
          work' = [work EXCEPT ![th].cur = n, ![th].todo = @ \ {n}]
    /\ seen' = [seen EXCEPT ![th] = registry]
    /\ pc' = [pc EXCEPT ![th] = "insert"]
    /\ UNCHANGED <<target_class, registry, ncalls, call, prev, lost>>

\* line 82, second half: thread th stores what it decided on the registry it read
Insert(th) ==
    /\ pc[th] = "insert"
    /\ LET n == work[th].cur
           k == <<n, SCHEMA>>
           r == register_sub_schema(seen[th], n, work[th].components[n], work[th].id)
           stores == k \notin DOMAIN seen[th] \/ r[k] # seen[th][k]
           changes == stores /\ (k \notin DOMAIN registry \/ registry[k] # r[k]) IN
       /\ registry' = IF stores
                      THEN [x \in DOMAIN registry \cup {k} |->
                               IF x = k THEN r[k] ELSE registry[x]]
                      ELSE registry
       /\ lost' = IF stores /\ k \in DOMAIN registry /\ registry[k] # r[k]
                  THEN lost \cup {[key |-> k, by |-> work[th].id,
                                   overlapped |-> work[th].overlapped]}
                  ELSE lost
       /\ work' = [o \in Threads |->
                     IF o = th
                     THEN IF work[th].todo = {} THEN NoWork ELSE work[th]
                     ELSE IF changes /\ pc[o] # "idle"
                          THEN [work[o] EXCEPT !.overlapped = TRUE]
                          ELSE work[o]]
    /\ pc' = [pc EXCEPT ![th] = IF work[th].todo = {} THEN "idle" ELSE "check"]
    /\ seen' = [seen EXCEPT ![th] = <<>>]
    /\ UNCHANGED <<target_class, ncalls, call, prev>>

NextConc ==
    \/ \E th \in Threads, t \in Targets : Begin(th, t)
    \/ \E th \in Threads : Check(th)
    \/ \E th \in Threads : Insert(th)

SpecConc == InitConc /\ [][NextConc]_vars

(***************************************************************************)
(* Properties.                                                             *)
(***************************************************************************)
KeyOf(n) == <<n, SCHEMA>>

\* C1: register-if-missing, first writer wins.  After a map_serializer call
\* every name left in the sub-schema mapping is registered; its body is the
\* one registered before the call if there was one, else the fragment the
\* compiler produced in this call; no entry present before the call is
\* changed or removed.
C1_FirstWriterWins ==
    call.op = "schema" =>
        /\ \A k \in DOMAIN call.regBefore :
              k \in DOMAIN registry /\ registry[k] = call.regBefore[k]
        /\ call.exc = "none" =>
              \A n \in DOMAIN call.components :
                 /\ KeyOf(n) \in DOMAIN registry
                 /\ KeyOf(n) \notin DOMAIN call.regBefore =>
                       /\ registry[KeyOf(n)].schema = call.components[n]
                       /\ registry[KeyOf(n)].name = n
                       /\ registry[KeyOf(n)].id = ncalls

\* a call whose dependency Point was already registered with the sentinel body
C1_Witness ==
    /\ call.op = "schema" /\ call.exc = "none"
    /\ s_Point \in DOMAIN call.components
    /\ KeyOf(s_Point) \in DOMAIN call.regBefore
    /\ call.regBefore[KeyOf(s_Point)].schema = Sentinel
    /\ registry[KeyOf(s_Point)].schema = Sentinel

\* C2: with the marker type available, _matches is true for every struct
\* type (the marker or a subclass) and every list of one, and false for 42,
\* for a class unrelated to the marker and for a list of such a class.
C2_MatchesStructsAndLists ==
    (call.op = "matches" /\ target_class = "cStruct") =>
        /\ \A c \in StructClasses :
              call.target \in {Cls(c), ListOf(c), TypingListOf(c)} =>
                  call.exc = "none" /\ call.ret = TRUE
        /\ call.target \in {FortyTwo, Cls("cUnrelated"), ListOf("cUnrelated")} =>
              call.exc = "none" /\ call.ret = FALSE

\* list[Line] was accepted
C2_Witness ==
    /\ call.op = "matches" /\ target_class = "cStruct"
    /\ call.target = ListOf("cLine") /\ call.ret = TRUE

\* C3: _matches returns a boolean and never raises, whatever the target.
C3_MatchesNeverRaises ==
    call.op = "matches" => call.exc = "none" /\ call.ret \in BOOLEAN

\* C4: marker type unavailable is a permanent non-match.  target_class is
\* resolved by the first _matches call and never changes afterwards; once it
\* is None every _matches call returns false, raises nothing and does not
\* unwrap its target.
C4_UnavailableIsPermanent ==
    /\ [](call.op = "matches" => target_class # Unresolved)
    /\ []((call.op = "matches" /\ target_class = "None") =>
             call.ret = FALSE /\ call.exc = "none" /\ ~call.unwrapped)
    /\ [][target_class # Unresolved => target_class' = target_class]_vars

\* a struct type is refused after the marker resolved to None
C4_Witness ==
    /\ target_class = "None" /\ call.op = "matches"
    /\ call.target = Cls("cPoint") /\ call.ret = FALSE

\* C5: get_name of a bare struct type is its declared name, get_name of
\* list[T] is "ArrayOf" followed by T's declared name, and the two differ.
C5_NameFor ==
    (call.op = "name") =>
        \A c \in StructClasses :
           /\ call.target = Cls(c) =>
                 /\ call.exc = "none" /\ call.name = DeclaredName(c)
                 /\ call.name # get_name(ListOf(c)).ret
           /\ call.target \in {ListOf(c), TypingListOf(c)} =>
                 /\ call.exc = "none"
                 /\ call.name = s_ArrayOf \o DeclaredName(c)
                 /\ call.name # get_name(Cls(c)).ret

\* list[Point] was named ArrayOfPoint
C5_Witness ==
    /\ call.op = "name" /\ call.target = ListOf("cPoint")
    /\ call.name = <<"A","r","r","a","y","O","f","P","o","i","n","t">>

\* C6: the schema-shape decision.  The compiler runs on the target as
\* given.  A top-level fragment with a "type" key is returned verbatim and
\* every component, T's included, is left to be registered.  Otherwise the
\* result is the component under T's declared name, that entry is removed
\* from the mapping, and the call does not register T's own name.
C6_ShapeDecision ==
    (call.op = "schema" /\ schema_components(call.target).ok) =>
        LET c == schema_components(call.target) IN
        /\ "type" \in DOMAIN c.top =>
              /\ call.exc = "none"
              /\ call.schema = c.top
              /\ call.components = c.components
              /\ \A n \in DOMAIN c.components : KeyOf(n) \in DOMAIN registry
        /\ ("type" \notin DOMAIN c.top /\ IsStructType(call.target)) =>
              /\ call.exc = "none"
              /\ call.schema = c.components[DeclaredName(call.target.cls)]
              /\ call.components = Without(c.components, DeclaredName(call.target.cls))
              /\ KeyOf(DeclaredName(call.target.cls)) \notin DOMAIN call.regBefore
                    => KeyOf(DeclaredName(call.target.cls)) \notin DOMAIN registry

\* the bare struct Line: Point was registered, Line itself was not
C6_Witness ==
    /\ call.op = "schema" /\ call.target = Cls("cLine") /\ call.exc = "none"
    /\ KeyOf(s_Point) \in DOMAIN registry
    /\ KeyOf(DeclaredName("cLine")) \notin DOMAIN registry

\* C7: idempotence.  A second get_name / map_serializer call on the same
\* target returns the same name / an equal fragment, and the second
\* map_serializer call leaves the registry as the first one left it.
C7_Idempotent ==
    /\ (call.op = "schema" /\ prev.op = "schema" /\ call.target = prev.target) =>
          /\ call.exc = prev.exc
          /\ call.schema = prev.schema
          /\ registry = call.regBefore
    /\ (call.op = "name" /\ prev.op = "name" /\ call.target = prev.target) =>
          call.exc = prev.exc /\ call.name = prev.name

\* list[Line] was documented twice in a row and its components registered
C7_Witness ==
    /\ call.op = "schema" /\ prev.op = "schema"
    /\ call.target = ListOf("cLine") /\ prev.target = ListOf("cLine")
    /\ call.exc = "none"
    /\ KeyOf(DeclaredName("cLine")) \in DOMAIN registry

\* what a target documents: the struct type and whether it is a list of it
Documented(t) == <<get_iterable_class(t).val, get_iterable_class(t).is_list>>

\* C8: component names never collide across targets.  Two accepted targets
\* (bare struct types or lists of one, with pairwise distinct declared
\* names) that document different things get different names.
C8_NamesNeverCollide ==
    (/\ call.op = "name" /\ prev.op = "name"
     /\ call.target \in ClassTargets \cup ListTargets
     /\ prev.target \in ClassTargets \cup ListTargets
     /\ Documented(call.target) # Documented(prev.target))
        => call.name # prev.name

\* C9: every target _matches accepts can be handled by the rest of the
\* adapter: get_iterable_class returns a class and a boolean, get_name
\* returns a name, and map_serializer raises nothing of its own (it finds
\* the entry it pops whenever the compiler succeeded without a "type" key).
C9_AcceptedIsHandled ==
    /\ (call.op = "matches" /\ call.exc = "none" /\ call.ret = TRUE) =>
          /\ get_iterable_class(call.target).exc = "none"
          /\ get_iterable_class(call.target).val.kind = "class"
          /\ get_iterable_class(call.target).is_list \in BOOLEAN
          /\ get_name(call.target).exc = "none"
          /\ shape(call.target).exc \in {"none", "CompilerError"}
    /\ call.op = "name" => call.exc = "none" /\ Len(call.name) > 0
    /\ call.op = "schema" =>
          /\ call.exc \in {"none", "CompilerError"}
          /\ (/\ schema_components(call.target).ok
              /\ "type" \notin DOMAIN schema_components(call.target).top)
                => /\ call.exc = "none"
                   /\ call.schema =
                        schema_components(call.target).components[call.target.name]

\* a struct instance, accepted through the fallback branch, was named
C9_Witness ==
    /\ call.op = "name" /\ call.target = Obj("cPoint")
    /\ call.exc = "none" /\ call.name = s_Point

\* C10: insert-if-absent is safe for calls that run one after another and
\* unsafe for interleaved ones.  A registry entry is overwritten only by a
\* call during which another call stored on the registry; that the
\* overwrite happens is C10_Witness.
C10_OverwriteOnlyWhenInterleaved ==
    \A l \in lost : l.overlapped

\* two interleaved calls both saw a name absent and both stored it
C10_Witness ==
    \E l \in lost : l.overlapped /\ registry[l.key].id = l.by

====
